---- MODULE Spec2Model ----
(***************************************************************************)
(* Model of src/src/inputIntoSelect.js: replaceInputWithSelect(fieldName,  *)
(* options) and the window 'message' listener that calls it.               *)
(*                                                                         *)
(* The document is a tree of element nodes.  A node id is an index into    *)
(* the sequence `nodes`; id 1 is the document root, 0 stands for null.     *)
(* Every DOM string (attribute value, text, field name, selector) is a     *)
(* tuple of one-character strings, so that the selector text the code      *)
(* builds from fieldName can be tokenised character by character.          *)
(***************************************************************************)
EXTENDS Integers, Sequences, FiniteSets, TLC

\* nodes    every element created so far, in or out of the document
\* pre      nodes as they were before the last call or message
\* doc0     nodes as they were when the script was loaded
\* last     the last call or message: its arguments and how it ended
\* ncalls   direct calls made; nevents  messages delivered;
\* nqual    form-ready messages among them
VARIABLES nodes, pre, doc0, last, ncalls, nevents, nqual

vars == <<nodes, pre, doc0, last, ncalls, nevents, nqual>>

\* Number of direct calls of replaceInputWithSelect in one run.
MaxCalls == 2
\* Number of window 'message' events delivered in one run.
MaxEvents == 3

(***************************************************************************)
(* Strings                                                                 *)
(***************************************************************************)
Str_fieldName == <<"f", "i", "e", "l", "d", "N", "a", "m", "e">>
Str_undefined == <<"u", "n", "d", "e", "f", "i", "n", "e", "d">>
Str_Small == <<"S", "m", "a", "l", "l">>
Str_Large == <<"L", "a", "r", "g", "e">>

\* JavaScript values an option property can hold: a string, or undefined
\* when the property is missing from the object.
JSString(s) == [t |-> "string", s |-> s]
JSUndefined == [t |-> "undefined", s |-> <<>>]

\* WebIDL conversion to DOMString (the `value` IDL attribute of an option
\* element): ToString(undefined) is the text "undefined".
ToDOMString(v) == IF v.t = "undefined" THEN Str_undefined ELSE v.s

\* WebIDL conversion to a nullable DOMString (Node.textContent): undefined
\* converts to null, and the textContent setter treats null as "".
ToNullableDOMString(v) == IF v.t = "undefined" THEN <<>> ELSE v.s

(***************************************************************************)
(* Elements                                                                *)
(***************************************************************************)
Attr(n, v) == [name |-> n, value |-> v]

Element(tag, attrs) ==
    [tag |-> tag, attrs |-> attrs, text |-> <<>>, kids |-> <<>>, parent |-> 0]

AttrNames(attrs) == {attrs[i].name : i \in 1..Len(attrs)}

HasAttr(el, n) == n \in AttrNames(el.attrs)

GetAttr(el, n) ==
    LET i == CHOOSE j \in 1..Len(el.attrs) : el.attrs[j].name = n
    IN  el.attrs[i].value

IndexOf(seq, x) ==
    IF \E i \in 1..Len(seq) : seq[i] = x
    THEN CHOOSE i \in 1..Len(seq) : seq[i] = x /\ \A j \in 1..(i - 1) : seq[j] # x
    ELSE 0

RECURSIVE Flatten(_)
Flatten(ss) == IF ss = <<>> THEN <<>> ELSE Head(ss) \o Flatten(Tail(ss))

\* Document order: the pre-order, depth-first walk from node id.
RECURSIVE Preorder(_, _)
Preorder(ns, id) ==
    <<id>> \o Flatten([k \in 1..Len(ns[id].kids) |-> Preorder(ns, ns[id].kids[k])])

\* The elements of the document, in document order (the root's descendants).
DocOrder(ns) == Tail(Preorder(ns, 1))

Occurs(seq, x) == \E i \in 1..Len(seq) : seq[i] = x

InDocument(ns, id) == Occurs(DocOrder(ns), id)

(***************************************************************************)
(* document.querySelector(`input[name="${fieldName}"]`)                    *)
(*                                                                         *)
(* The template literal pastes fieldName, unescaped, between the quotes of *)
(* an attribute selector.  The selector text is tokenised as CSS: inside   *)
(* the string a backslash starts an escape and a quotation mark ends the   *)
(* string.  The parse below is exact for field names that contain neither  *)
(* "]" nor "/", as none of FieldNames does.                                *)
(***************************************************************************)
HexDigits ==
    {"0", "1", "2", "3", "4", "5", "6", "7", "8", "9",
     "a", "b", "c", "d", "e", "f", "A", "B", "C", "D", "E", "F"}

HexDigitValue(c) ==
    CASE c = "0" -> 0 [] c = "1" -> 1 [] c = "2" -> 2 [] c = "3" -> 3
      [] c = "4" -> 4 [] c = "5" -> 5 [] c = "6" -> 6 [] c = "7" -> 7
      [] c = "8" -> 8 [] c = "9" -> 9
      [] c \in {"a", "A"} -> 10 [] c \in {"b", "B"} -> 11
      [] c \in {"c", "C"} -> 12 [] c \in {"d", "D"} -> 13
      [] c \in {"e", "E"} -> 14 [] c \in {"f", "F"} -> 15

RECURSIVE HexValue(_)
HexValue(h) ==
    IF h = <<>> THEN 0
    ELSE 16 * HexValue(SubSeq(h, 1, Len(h) - 1)) + HexDigitValue(h[Len(h)])

\* The character of a code point.  Code points outside the characters the
\* model's documents use are all written "?" (no name in a document holds it).
CharOfCodePoint(n) ==
    CASE n = 10 -> "\n" [] n = 32 -> " " [] n = 34 -> "\"" [] n = 54 -> "6"
      [] n = 92 -> "\\" [] n = 97 -> "a" [] n = 101 -> "e" [] n = 110 -> "n"
      [] OTHER -> "?"

IsNewline(c) == c \in {"\n", "\r", "\f"}

IsWhitespace(c) == c \in {" ", "\t", "\n", "\r", "\f"}

\* How many hex digits (at most 6) start at text[i].
RECURSIVE HexRun(_, _, _)
HexRun(text, i, n) ==
    IF n < 6 /\ i + n <= Len(text) /\ text[i + n] \in HexDigits
    THEN HexRun(text, i, n + 1)
    ELSE n

\* CSS Syntax, "consume an escaped code point": text[i] follows a backslash.
ConsumeEscape(text, i) ==
    IF text[i] \in HexDigits
    THEN LET n == HexRun(text, i, 0)
             after == i + n
         IN  [char |-> CharOfCodePoint(HexValue(SubSeq(text, i, i + n - 1))),
              next |-> IF after <= Len(text) /\ IsWhitespace(text[after])
                       THEN after + 1 ELSE after]
    ELSE [char |-> text[i], next |-> i + 1]

\* CSS Syntax, "consume a string token" ended by a quotation mark; text[i] is
\* the first character after the opening quotation mark.
RECURSIVE ConsumeString(_, _, _)
ConsumeString(text, i, acc) ==
    IF i > Len(text) THEN [kind |-> "eof-string", value |-> acc, next |-> i]
    ELSE IF text[i] = "\"" THEN [kind |-> "string", value |-> acc, next |-> i + 1]
    ELSE IF IsNewline(text[i]) THEN [kind |-> "bad-string", value |-> acc, next |-> i]
    ELSE IF text[i] = "\\"
    THEN IF i = Len(text) THEN ConsumeString(text, i + 1, acc)
         ELSE IF IsNewline(text[i + 1]) THEN ConsumeString(text, i + 2, acc)
         ELSE LET e == ConsumeEscape(text, i + 1)
              IN  ConsumeString(text, e.next, Append(acc, e.char))
    ELSE ConsumeString(text, i + 1, Append(acc, text[i]))

SelectorPrefix == <<"i", "n", "p", "u", "t", "[", "n", "a", "m", "e", "=", "\"">>

SelectorSuffix == <<"\"", "]">>

\* The template literal of line 8.
InputSelector(fieldName) == SelectorPrefix \o fieldName \o SelectorSuffix

\* Parse of the selector text: [valid, value], value being the name that
\* input[name="..."] asks for.  The string that ends at the end of the text is
\* still a string token and the open bracket is closed by the end of the text;
\* a string that ends before the suffix leaves a second string inside the
\* brackets, which no attribute selector allows.
ParseInputSelector(text) ==
    LET tok == ConsumeString(text, Len(SelectorPrefix) + 1, <<>>)
    IN  CASE tok.kind = "eof-string" -> [valid |-> TRUE, value |-> tok.value]
          [] tok.kind = "string" ->
                [valid |-> SubSeq(text, tok.next, Len(text)) = <<"]">>,
                 value |-> tok.value]
          [] OTHER -> [valid |-> FALSE, value |-> <<>>]

\* Mutant: the selector [name="value"], which matches an element of any kind.
MatchesAnyKind(el, value) ==
    HasAttr(el, "name") /\ GetAttr(el, "name") = value

\* Mutant: the selector matches a select of that name as well.
MatchesInputOrSelect(el, value) ==
    el.tag \in {"input", "select"} /\ HasAttr(el, "name")
    /\ GetAttr(el, "name") = value

\* Does element el match input[name="value"]?
MatchesInputName(el, value) ==
    el.tag = "input" /\ HasAttr(el, "name") /\ GetAttr(el, "name") = value

\* The first element of order, from position i on, that matches
\* input[name="value"]; 0 when none does.
RECURSIVE FirstMatch(_, _, _, _)
FirstMatch(ns, order, i, value) ==
    IF i > Len(order) THEN 0
    ELSE IF MatchesInputName(ns[order[i]], value) THEN order[i]
    ELSE FirstMatch(ns, order, i + 1, value)

\* document.querySelector: a SyntaxError for an invalid selector, else the
\* first matching element in document order, else null (id 0).
QuerySelector(ns, text) ==
    LET sel == ParseInputSelector(text)
    IN  IF ~sel.valid THEN [threw |-> TRUE, id |-> 0]
        ELSE [threw |-> FALSE, id |-> FirstMatch(ns, DocOrder(ns), 1, sel.value)]

(***************************************************************************)
(* replaceInputWithSelect                                                  *)
(***************************************************************************)
\* document.createElement(tag): a new element, outside the document.
CreateElement(ns, tag) == Append(ns, Element(tag, <<>>))

\* Mutant: a copy that leaves the id attribute out.
SetAttribute_DropsId(attrs, name, value) ==
    IF name = "id" THEN attrs
    ELSE IF name \in AttrNames(attrs)
    THEN [i \in 1..Len(attrs) |->
            IF attrs[i].name = name THEN Attr(name, value) ELSE attrs[i]]
    ELSE Append(attrs, Attr(name, value))

\* Element.setAttribute(name, value): the value of the attribute of that
\* name is changed where it stands, else the attribute is appended last.
\* (Attribute names of a parsed HTML input are lower case already, so the
\* lower-casing of setAttribute leaves them as they are.)
SetAttribute(attrs, name, value) ==
    IF name \in AttrNames(attrs)
    THEN [i \in 1..Len(attrs) |->
            IF attrs[i].name = name THEN Attr(name, value) ELSE attrs[i]]
    ELSE Append(attrs, Attr(name, value))

\* Array.from(input.attributes).forEach(attr => select.setAttribute(...)),
\* from attribute i of the input on; acc is the select's attribute list.
RECURSIVE CopyAttributes(_, _, _)
CopyAttributes(source, i, acc) ==
    IF i > Len(source) THEN acc
    ELSE CopyAttributes(source, i + 1,
                        SetAttribute(acc, source[i].name, source[i].value))

\* The option element lines 25-27 make of opt.
OptionElement(opt) ==
    [Element("option", SetAttribute(<<>>, "value", ToDOMString(opt.value)))
        EXCEPT !.text = ToNullableDOMString(opt.label)]

\* Mutant: the child is put first among the children, not last.
AppendChild_Prepends(ns, parentId, childId) ==
    [ns EXCEPT ![parentId].kids = <<childId>> \o @,
               ![childId].parent = parentId]

\* Node.appendChild(child) for a child that has no parent yet.
AppendChild(ns, parentId, childId) ==
    [ns EXCEPT ![parentId].kids = Append(@, childId),
               ![childId].parent = parentId]

\* options.forEach(opt => { ... select.appendChild(option) }), from option i on.
RECURSIVE AddOptions(_, _, _, _)
AddOptions(ns, selectId, options, i) ==
    IF i > Len(options) THEN ns
    ELSE AddOptions(AppendChild(Append(ns, OptionElement(options[i])),
                                selectId, Len(ns) + 1),
                    selectId, options, i + 1)

\* Mutant: removeChild(old) followed by appendChild(new): the new element
\* ends up last among the children.
ReplaceChild_AppendsLast(ns, parentId, newId, oldId) ==
    [ns EXCEPT ![parentId].kids =
                   Append(SelectSeq(@, LAMBDA k : k # oldId), newId),
               ![newId].parent = parentId,
               ![oldId].parent = 0]

\* Mutant: the old element keeps its link to the parent.
ReplaceChild_KeepsParentLink(ns, parentId, newId, oldId) ==
    [ns EXCEPT ![parentId].kids =
                   [@ EXCEPT ![IndexOf(ns[parentId].kids, oldId)] = newId],
               ![newId].parent = parentId]

\* parent.replaceChild(newId, oldId): newId takes the place of oldId among
\* the children of parent, oldId is left without a parent.
ReplaceChild(ns, parentId, newId, oldId) ==
    LET at == IndexOf(ns[parentId].kids, oldId)
    IN  [ns EXCEPT ![parentId].kids = [@ EXCEPT ![at] = newId],
                   ![newId].parent = parentId,
                   ![oldId].parent = 0]

WarnPrefix ==
    <<"I", "n", "p", "u", "t", " ", "w", "i", "t", "h", " ",
      "n", "a", "m", "e", " ", "\"">>

WarnSuffix == <<"\"", " ", "n", "o", "t", " ", "f", "o", "u", "n", "d">>

\* The text of the console.warn of line 11.
WarnText(fieldName) == WarnPrefix \o fieldName \o WarnSuffix

\* What one run of the function or of the listener leaves behind: the
\* document after it, how it ended ("select": returned the select,
\* "undefined": returned nothing, "throw": an exception left the function,
\* "ignored": the listener did not call the function), the element
\* returned, the input found and where it stood, and the console output.
Outcome(ns, result, ret, src, parent, index, warn) ==
    [nodes |-> ns, result |-> result, ret |-> ret, src |-> src,
     parent |-> parent, index |-> index, warn |-> warn]

\* Lines 16-34: the input was found.
ReplaceFound(ns, input, options) ==
    LET select == Len(ns) + 1
        parentNode == ns[input].parent
    IN  Outcome(ReplaceChild(
                    AddOptions([CreateElement(ns, "select") EXCEPT
                                  ![select].attrs =
                                      CopyAttributes(ns[input].attrs, 1, <<>>)],
                               select, options, 1),
                    parentNode, select, input),
                "select", select, input, parentNode,
                IndexOf(ns[parentNode].kids, input), <<>>)

\* Lines 10-34: what follows the query of line 8, whose result is found.
AfterQuery(ns, fieldName, options, found) ==
    IF found.threw THEN Outcome(ns, "throw", 0, 0, 0, 0, <<>>)
    ELSE IF found.id = 0
    THEN Outcome(ns, "undefined", 0, 0, 0, 0, <<WarnText(fieldName)>>)
    ELSE ReplaceFound(ns, found.id, options)

\* One call replaceInputWithSelect(fieldName, options) on the document ns.
replaceInputWithSelect(ns, fieldName, options) ==
    AfterQuery(ns, fieldName, options,
               QuerySelector(ns, InputSelector(fieldName)))

(***************************************************************************)
(* The window 'message' listener                                           *)
(***************************************************************************)
Option(label, value) == [label |-> JSString(label), value |-> JSString(value)]

\* myOptions, lines 41-46.
myOptions ==
    << Option(<<"S", "e", "l", "e", "c", "t", " ", "a", "n", " ",
                "o", "p", "t", "i", "o", "n">>, <<>>),
       Option(<<"O", "p", "t", "i", "o", "n", " ", "1">>,
              <<"o", "p", "t", "i", "o", "n", "1">>),
       Option(<<"O", "p", "t", "i", "o", "n", " ", "2">>,
              <<"o", "p", "t", "i", "o", "n", "2">>),
       Option(<<"O", "p", "t", "i", "o", "n", " ", "3">>,
              <<"o", "p", "t", "i", "o", "n", "3">>) >>

\* event.data of a message: null, or an object with the two properties the
\* listener reads.
MessageData ==
    [isNull : {FALSE}, type : {"hsFormCallback", "other"},
     eventName : {"onFormReady", "onFormSubmit"}]
    \cup {[isNull |-> TRUE, type |-> "", eventName |-> ""]}

\* Mutant: the event name is not looked at.
IsFormReady_TypeOnly(data) == data.type = "hsFormCallback"

\* The condition of line 39.
IsFormReady(data) ==
    data.type = "hsFormCallback" /\ data.eventName = "onFormReady"

\* The listener of lines 38-51 on one event: reading a property of a null
\* event.data throws a TypeError; a form-ready event calls
\* replaceInputWithSelect('fieldName', myOptions); any other event does nothing.
OnMessage(ns, data) ==
    IF data.isNull
    THEN Outcome(ns, "throw", 0, 0, 0, 0, <<>>)
    ELSE IF IsFormReady(data)
    THEN replaceInputWithSelect(ns, Str_fieldName, myOptions)
    ELSE Outcome(ns, "ignored", 0, 0, 0, 0, <<>>)

(***************************************************************************)
(* Documents, inputs and the state machine                                 *)
(***************************************************************************)
Name_n == <<"n">>
Name_a == <<"a">>
Name_bsn == <<"\\", "n">>

Label == Element("label", <<>>)

\* <input type="text" name=.. id=.. class="hs-input" required>, as the form
\* renderer writes it.
Input(name, id) ==
    Element("input",
            << Attr("type", <<"t", "e", "x", "t">>), Attr("name", name),
               Attr("id", id), Attr("class", <<"h", "s">>),
               Attr("required", <<>>) >>)

Textarea(name) == Element("textarea", <<Attr("name", name), Attr("rows", <<"3">>)>>)

\* A document layout: the field containers of the form, each the sequence
\* of its child elements.
Layouts ==
    { << <<Label, Input(Name_n, <<"x">>), Label>>,
         <<Input(Str_fieldName, <<"y">>)>> >>,
      << <<Input(Name_n, <<"x">>), Label>>,
         <<Label, Input(Name_n, <<"y">>)>> >>,
      << <<Textarea(Name_n), Input(Name_n, <<"x">>)>> >>,
      << <<Textarea(Name_n), Label>> >>,
      << <<Label, Input(Str_fieldName, <<"x">>)>>,
         <<Input(Str_fieldName, <<"y">>), Label>> >>,
      << <<Input(Name_bsn, <<"x">>), Input(Name_n, <<"y">>)>> >> }

RECURSIVE LeavesBefore(_, _)
LeavesBefore(layout, d) ==
    IF d <= 1 THEN 0 ELSE LeavesBefore(layout, d - 1) + Len(layout[d - 1])

\* The document of a layout: node 1 is the form (the root), nodes 2..D+1
\* its containers, the nodes after them the containers' children.
BuildDocument(layout) ==
    LET D == Len(layout)
        leafId(d, k) == 1 + D + LeavesBefore(layout, d) + k
        leaves == Flatten([d \in 1..D |->
                     [k \in 1..Len(layout[d]) |->
                        [layout[d][k] EXCEPT !.parent = d + 1]]])
    IN  << [Element("form", <<>>) EXCEPT !.kids = [d \in 1..D |-> d + 1]] >>
        \o [d \in 1..D |->
              [Element("div", <<>>) EXCEPT
                 !.kids = [k \in 1..Len(layout[d]) |-> leafId(d, k)],
                 !.parent = 1]]
        \o leaves

\* Field names a caller passes: plain names, and names holding a backslash or
\* a quotation mark.
FieldNames ==
    { Name_n, Name_a, Str_fieldName, Name_bsn, <<"\\", "6", "e">>,
      <<"n", "\\">>, <<"n", "\"", "a">> }

Opt_Small == Option(Str_Small, <<"s">>)
Opt_Large == Option(Str_Large, <<"l">>)
\* { label: 'Small' } and { value: 'l' }: a property is missing.
Opt_NoValue == [label |-> JSString(Str_Small), value |-> JSUndefined]
Opt_NoLabel == [label |-> JSUndefined, value |-> JSString(<<"l">>)]

\* Option lists a caller passes: the empty list, lists in either order, a
\* list that repeats an option, and lists with an option that lacks a property.
OptionLists ==
    { <<>>, <<Opt_Small>>, <<Opt_Small, Opt_Large>>, <<Opt_Large, Opt_Small>>,
      <<Opt_Large, Opt_Large, Opt_Small>>,
      <<Opt_NoValue>>, <<Opt_Small, Opt_NoValue>>, <<Opt_NoLabel, Opt_Large>> }

NoData == [isNull |-> FALSE, type |-> "", eventName |-> ""]

Init ==
    /\ \E layout \in Layouts : nodes = BuildDocument(layout)
    /\ pre = nodes
    /\ doc0 = nodes
    /\ last = [op |-> "none", fieldName |-> <<>>, options |-> <<>>,
               data |-> NoData, result |-> "none", ret |-> 0, src |-> 0,
               parent |-> 0, index |-> 0, warn |-> <<>>]
    /\ ncalls = 0
    /\ nevents = 0
    /\ nqual = 0

\* A caller runs replaceInputWithSelect(fieldName, options).
CallReplace(fieldName, options) ==
    /\ ncalls < MaxCalls
    /\ \E out \in {replaceInputWithSelect(nodes, fieldName, options)} :
           /\ nodes' = out.nodes
           /\ last' = [op |-> "call", fieldName |-> fieldName,
                       options |-> options, data |-> NoData,
                       result |-> out.result, ret |-> out.ret, src |-> out.src,
                       parent |-> out.parent, index |-> out.index,
                       warn |-> out.warn]
    /\ pre' = nodes
    /\ ncalls' = ncalls + 1
    /\ UNCHANGED <<doc0, nevents, nqual>>

\* The window receives a message event and the listener runs.
Message(data) ==
    /\ nevents < MaxEvents
    /\ \E out \in {OnMessage(nodes, data)} :
           /\ nodes' = out.nodes
           /\ last' = [op |-> "message", fieldName |-> Str_fieldName,
                       options |-> myOptions, data |-> data,
                       result |-> out.result, ret |-> out.ret, src |-> out.src,
                       parent |-> out.parent, index |-> out.index,
                       warn |-> out.warn]
    /\ pre' = nodes
    /\ nevents' = nevents + 1
    /\ nqual' = IF ~data.isNull /\ IsFormReady(data) THEN nqual + 1 ELSE nqual
    /\ UNCHANGED <<doc0, ncalls>>

\* A page whose script calls the function itself.
Next ==
    \E fieldName \in FieldNames, options \in OptionLists :
        CallReplace(fieldName, options)

Spec == Init /\ [][Next]_vars

\* The page as the file leaves it: the function is called by the listener only.
NextListener == \E data \in MessageData : Message(data)

SpecListener == Init /\ [][NextListener]_vars

(***************************************************************************)
(* Properties                                                              *)
(***************************************************************************)
\* The last step ran replaceInputWithSelect(last.fieldName, last.options):
\* a direct call, or a form-ready message.
Ran ==
    \/ last.op = "call"
    \/ /\ last.op = "message"
       /\ ~last.data.isNull
       /\ last.data.type = "hsFormCallback"
       /\ last.data.eventName = "onFormReady"

\* ... and it returned the select it created.
Replaced == Ran /\ last.result = "select"

NameIs(el, name) ==
    \E i \in 1..Len(el.attrs) :
        el.attrs[i].name = "name" /\ el.attrs[i].value = name

\* Positions, in the document order of ns, of the elements whose name is name.
NamedAt(ns, order, name) == {i \in 1..Len(order) : NameIs(ns[order[i]], name)}

\* Some element of the document order is an input named name.
HoldsInputNamed(ns, order, name) ==
    \E i \in 1..Len(order) :
        ns[order[i]].tag = "input" /\ NameIs(ns[order[i]], name)

Least(S) == CHOOSE i \in S : \A j \in S : i <= j

IsPlainName(name) == \A i \in 1..Len(name) : name[i] \notin {"\"", "\\", "\n"}

C2_OptionsMirrored ==
    Replaced =>
        LET kids == nodes[last.ret].kids
        IN  /\ Len(kids) = Len(last.options)
            /\ \A i, j \in 1..Len(kids) : i # j => kids[i] # kids[j]
            /\ \A i \in 1..Len(kids) :
                  /\ nodes[kids[i]].tag = "option"
                  /\ nodes[kids[i]].parent = last.ret
                  /\ nodes[kids[i]].kids = <<>>
                  /\ last.options[i].label.t = "string" =>
                        nodes[kids[i]].text = last.options[i].label.s
                  /\ last.options[i].value.t = "string" =>
                        nodes[kids[i]].attrs =
                            <<Attr("value", last.options[i].value.s)>>

C2_Witness ==
    /\ Replaced
    /\ last.options = <<Opt_Large, Opt_Large, Opt_Small>>
    /\ Len(nodes[last.ret].kids) = 3

\* C3 (as claimed): when no element of the document is named f, replace(f,
\* opts) returns the not-found result and leaves the document as it was.
C3_AbsentNameIsNoOp ==
    (Ran /\ NamedAt(pre, DocOrder(pre), last.fieldName) = {}) =>
        /\ last.result = "undefined"
        /\ nodes = pre

\* C4: after a successful replace the returned select stands where the Source
\* Element stood: same parent, same index among the parent's children, the
\* siblings before and after it unchanged and in their order.
C4_PositionPreserved ==
    Replaced =>
        LET p == pre[last.src].parent
            at == IndexOf(pre[p].kids, last.src)
        IN  /\ InDocument(pre, last.src)
            /\ at > 0
            /\ InDocument(nodes, last.ret)
            /\ nodes[last.ret].parent = p
            /\ Len(nodes[p].kids) = Len(pre[p].kids)
            /\ \A k \in 1..Len(pre[p].kids) :
                  nodes[p].kids[k] = IF k = at THEN last.ret ELSE pre[p].kids[k]
            /\ nodes[p].parent = pre[p].parent
            /\ nodes[pre[p].parent].kids = pre[pre[p].parent].kids

C4_Witness ==
    /\ Replaced
    /\ last.index = 2
    /\ Len(nodes[last.parent].kids) = 3
    /\ nodes[last.parent].kids[2] = last.ret

C6_NeverThrows == Ran => last.result \in {"select", "undefined"}

\* The options the element el shows are those of the option list options.
ShowsOptions(ns, el, options) ==
    /\ Len(el.kids) = Len(options)
    /\ \A i \in 1..Len(options) :
          /\ ns[el.kids[i]].text = ToNullableDOMString(options[i].label)
          /\ ns[el.kids[i]].attrs =
                <<Attr("value", ToDOMString(options[i].value))>>

\* Two calls for the same field name, one after the other, the first of which
\* replaced an input and the second of which ended normally.
TwoCallsSameField ==
    /\ last.op = "call" /\ last.result = "select"
    /\ last'.op = "call" /\ last'.fieldName = last.fieldName
    /\ last'.result \in {"select", "undefined"}

\* C7 (as claimed): last writer wins: after both calls the element at the
\* field's position shows the option list of the second call.
C7_LastWriterWins ==
    [][TwoCallsSameField =>
          ShowsOptions(nodes', nodes'[nodes'[last.parent].kids[last.index]],
                       last'.options)]_vars

\* C7 (amended): first writer wins: after both calls the element at the
\* field's position is still the select the first call put there, with the
\* first call's options; the second call does not touch it (it finds no input
\* of that name, or replaces a later input of that name).
C7_FirstWriterWins ==
    [][TwoCallsSameField =>
          /\ nodes'[last.parent].kids[last.index] = last.ret
          /\ nodes'[last.ret] = nodes[last.ret]
          /\ ShowsOptions(nodes', nodes'[last.ret], last.options)
          /\ last'.src # last.ret]_vars

\* The second of two calls for 'fieldName' found no input: the select of the
\* first call is in the document and shows other options than the second call's.
C7_Witness ==
    /\ ncalls = 2 /\ nevents = 0
    /\ last.op = "call" /\ last.result = "undefined"
    /\ last.fieldName = Str_fieldName
    /\ \E id \in 1..Len(nodes) :
          /\ InDocument(nodes, id)
          /\ nodes[id].tag = "select"
          /\ NameIs(nodes[id], Str_fieldName)
          /\ nodes[id].kids # <<>>
          /\ ~ShowsOptions(nodes, nodes[id], last.options)

\* C8: a successful replace changes the document in one place only: the
\* parent's child at the Source Element's index becomes the select; every
\* other node that existed keeps its tag, attributes, text, children and
\* parent; the Source Element is out of the document, its attributes as they
\* were; the only new nodes are the select and its options.
C8_OneMutation ==
    Replaced =>
        LET p == pre[last.src].parent
            at == IndexOf(pre[p].kids, last.src)
        IN  /\ \A id \in 1..Len(pre) :
                  id \notin {p, last.src} => nodes[id] = pre[id]
            /\ nodes[p] = [pre[p] EXCEPT !.kids = [@ EXCEPT ![at] = last.ret]]
            /\ nodes[last.src] = [pre[last.src] EXCEPT !.parent = 0]
            /\ ~InDocument(nodes, last.src)
            /\ Len(nodes) = Len(pre) + 1 + Len(last.options)
            /\ \A id \in (Len(pre) + 1)..Len(nodes) :
                  id = last.ret \/ nodes[id].parent = last.ret

\* A replace in a document where another input carries the same name.
C8_Witness ==
    /\ Replaced
    /\ \E id \in 1..Len(pre) :
          /\ id # last.src
          /\ nodes[id].tag = "input"
          /\ nodes[id].attrs[2] = pre[last.src].attrs[2]
          /\ InDocument(nodes, id)

\* C9 (as claimed): an option that lacks its label gives a choice with empty
\* text, an option that lacks its value a choice with an empty or absent value.
C9_MissingPartIsEmpty ==
    Replaced =>
        \A i \in 1..Len(last.options) :
            LET o == nodes[nodes[last.ret].kids[i]]
            IN  /\ last.options[i].label.t = "undefined" => o.text = <<>>
                /\ last.options[i].value.t = "undefined" =>
                      \A a \in 1..Len(o.attrs) :
                          o.attrs[a].name = "value" => o.attrs[a].value = <<>>

IsFieldInput(el) == el.tag = "input" /\ NameIs(el, Str_fieldName)

FieldInputsOf(ns, order) ==
    {id \in 1..Len(ns) : Occurs(order, id) /\ IsFieldInput(ns[id])}

\* The inputs named 'fieldName' that the document holds.
FieldInputs(ns) == FieldInputsOf(ns, DocOrder(ns))

Min(a, b) == IF a < b THEN a ELSE b

\* C10: where only the listener runs: after k form-ready events on a document
\* that held m inputs named 'fieldName', min(k, m) selects have been created,
\* all of them still in the document with the listener's options, and
\* m - min(k, m) such inputs are left; a form-ready event replaces at most one
\* input, and any other message leaves the document as it was.
C10_ListenerReplacesOnePerEvent ==
    LET m == Cardinality(FieldInputs(doc0))
        created == {id \in (Len(doc0) + 1)..Len(nodes) : nodes[id].tag = "select"}
    IN  /\ Cardinality(created) = Min(nqual, m)
        /\ Cardinality(FieldInputs(nodes)) = m - Min(nqual, m)
        /\ \A id \in created :
              /\ InDocument(nodes, id)
              /\ NameIs(nodes[id], Str_fieldName)
              /\ ShowsOptions(nodes, nodes[id], myOptions)
        /\ last.op = "message" =>
              IF Ran
              THEN Cardinality(FieldInputs(pre))
                       - Cardinality(FieldInputs(nodes)) \in {0, 1}
              ELSE nodes = pre

\* Two form-ready events on a document with one such input: one select.
C10_Witness ==
    /\ nqual = 2
    /\ Cardinality(FieldInputs(doc0)) = 1
    /\ FieldInputs(nodes) = {}
    /\ last.result = "undefined"

====
